---- MODULE Spec2Model ----
(***************************************************************************)
(* Model of assets/files/event_study.py: event_study_analysis_iterative    *)
(* and the __main__ block that persists its result.                        *)
(*                                                                         *)
(* Floating-point values are modelled as exact fractions <<num, den>> in   *)
(* lowest terms with den > 0; <<0, 0>> is NaN (pandas' missing value and   *)
(* numpy's 0/0) and <<1, 0>>, <<-1, 0>> are the infinities.  Python's      *)
(* 0-based indices are kept; At and PySlice translate them to TLA+'s       *)
(* 1-based sequences.                                                      *)
(***************************************************************************)
EXTENDS Integers, Sequences, FiniteSets, TLC

\* ---------------------------------------------------------------- bounds
MaxRows == 35
MaxB == 2
MaxC == 3

\* Length of the estimation window (a + b + 30 is its last index).
EstLen == 30

RowCounts == 27..MaxRows
BInputs == (0 - 2)..MaxB
CInputs == (0 - 1)..MaxC

\* ------------------------------------------------------------ arithmetic
Abs(x) == IF x < 0 THEN 0 - x ELSE x

Sgn(x) == IF x < 0 THEN 0 - 1 ELSE IF x > 0 THEN 1 ELSE 0

Max0(x) == IF x < 0 THEN 0 ELSE x

RECURSIVE GCD(_, _)
GCD(x, y) == IF y = 0 THEN x ELSE GCD(y, x % y)

NaN == <<0, 0>>

Zero == <<0, 1>>

Num(k) == <<k, 1>>

IsFinite(x) == x[2] # 0

Frac(p, q) ==
    IF q = 0 THEN <<Sgn(p), 0>>
    ELSE LET g == GCD(Abs(p), Abs(q))
             s == IF q < 0 THEN 0 - 1 ELSE 1
         IN <<(s * p) \div g, (s * q) \div g>>

FAdd(x, y) ==
    IF IsFinite(x) /\ IsFinite(y) THEN Frac(x[1] * y[2] + y[1] * x[2], x[2] * y[2]) ELSE NaN

FSub(x, y) ==
    IF IsFinite(x) /\ IsFinite(y) THEN Frac(x[1] * y[2] - y[1] * x[2], x[2] * y[2]) ELSE NaN

FMul(x, y) ==
    IF IsFinite(x) /\ IsFinite(y) THEN Frac(x[1] * y[1], x[2] * y[2]) ELSE NaN

FDiv(x, y) ==
    IF IsFinite(x) /\ IsFinite(y) THEN Frac(x[1] * y[2], x[2] * y[1]) ELSE NaN

\* -------------------------------------------------- Python sequence access
\* s[i] for a Python index i: negative indices count from the end.
InRange(s, idx) == (0 - Len(s)) <= idx /\ idx < Len(s)

At(s, idx) == IF idx < 0 THEN s[Len(s) + idx + 1] ELSE s[idx + 1]

\* Position a slice bound k denotes in a sequence of length len.
SliceBound(k, len) ==
    IF k < 0 THEN Max0(k + len) ELSE IF k > len THEN len ELSE k

\* s[start:stop]
PySlice(s, start, stop) ==
    LET lo == SliceBound(start, Len(s))
        hi == SliceBound(stop, Len(s))
    IN IF hi <= lo THEN <<>> ELSE [k \in 1..(hi - lo) |-> s[lo + k]]

\* sum(list) of floats, starting from the integer 0.
PySum_DropLast(s) ==
    LET f[k \in 0..Len(s)] == IF k = 0 THEN Zero ELSE FAdd(f[k - 1], s[k])
    IN f[Max0(Len(s) - 1)]

PySum(s) ==
    LET f[k \in 0..Len(s)] == IF k = 0 THEN Zero ELSE FAdd(f[k - 1], s[k])
    IN f[Len(s)]

\* ------------------------------------------------------------- data.xlsx
\* Cell values of row r (0-based) of the workbook.  The reference column
\* varies on the rows before varyUntil and is constant from there on.
TargetCell(r) == Num(r % 3)

ReferenceCell(r, varyUntil) == IF r < varyUntil THEN Num(2 + (r % 2)) ELSE Num(1)

\* A workbook of nRows rows; tMiss / rMiss is the row whose target /
\* reference cell is empty (-1: none).
MakeDf(nRows, tMiss, rMiss, varyUntil) ==
    [k \in 1..nRows |->
        [target    |-> IF k - 1 = tMiss THEN NaN ELSE TargetCell(k - 1),
         reference |-> IF k - 1 = rMiss THEN NaN ELSE ReferenceCell(k - 1, varyUntil)]]

Workbooks ==
    {MakeDf(nr, tm, rm, vu) :
        nr \in RowCounts, tm \in {0 - 1, 0}, rm \in {0 - 1, 0, 1}, vu \in {0, 2, MaxRows + 1}}

\* df[col].dropna(): the rows (0-based labels) whose cell is not missing.
RECURSIVE KeptRows(_, _, _)
KeptRows(frame, col, k) ==
    IF k > Len(frame) THEN <<>>
    ELSE IF frame[k][col] = NaN THEN KeptRows(frame, col, k + 1)
    ELSE <<k - 1>> \o KeptRows(frame, col, k + 1)

DropNaRows(frame, col) == KeptRows(frame, col, 1)

\* .values of the kept rows
ValuesOf(frame, col, rows) == [k \in 1..Len(rows) |-> frame[rows[k] + 1][col]]

Min(x, y) == IF x < y THEN x ELSE y

\* ------------------------------------------------------------ linregress
AllEqual(s) == Cardinality({s[k] : k \in 1..Len(s)}) <= 1

\* stats.linregress raises ValueError on empty inputs and when all x values
\* are identical.
LinregressRaises(x, y) ==
    Len(x) = 0 \/ Len(y) = 0 \/ (Len(x) > 1 /\ AllEqual(x))

ExactFit == [slope |-> Num(2), intercept |-> Num(1), r_value |-> Num(1), std_err |-> Zero]

NoisyFit == [slope |-> Num(1), intercept |-> Zero, r_value |-> <<1, 2>>, std_err |-> <<1, 2>>]

NaNFit == [slope |-> NaN, intercept |-> NaN, r_value |-> Zero, std_err |-> NaN]

\* The fits linregress may return for inputs it accepts: a single point
\* gives NaN, two points always fit exactly.
LinregressResults(x, y) ==
    IF Len(x) = 1 THEN {NaNFit}
    ELSE IF Len(x) = 2 THEN {ExactFit}
    ELSE {ExactFit, NoisyFit}

\* ------------------------------------------------- the function's formulas
MinA(bb) == bb

MaxA(nn, bb) == nn - bb - 31

ValidRange_NoCheck(lo, hi) == TRUE

ValidRange(lo, hi) == ~(lo > hi)

ClampedC_NoClamp(lo, hi, cc) == cc

ClampedC(lo, hi, cc) == IF lo + cc - 1 > hi THEN hi - lo + 1 ELSE cc

EstimationWindowEnd_OffByOne(aa, bb) == aa + bb + EstLen - 1

EstimationWindowEnd(aa, bb) == aa + bb + EstLen

IterationTag_ZeroBased(it) == it

IterationTag(it) == it + 1

TStat_NoGuard(ar, se) == FDiv(ar, se)

TStat(ar, se) == IF se # Zero THEN FDiv(ar, se) ELSE Zero

ResultsIsNotNone_Always(res) == TRUE

ResultsIsNotNone(res) == res # "None"

Line(kind, x, y) == [kind |-> kind, x |-> x, y |-> y]

\* ------------------------------------------------------------------ state
VARIABLES
    pc,                     \* position in the script
    fileOk,                 \* whether data.xlsx can be read
    df,                     \* the workbook's rows
    target_index, reference_index,
    target_rows, reference_rows,   \* workbook row of each element (history)
    n, b, c, c_in,          \* c_in: the iteration count as entered (history)
    min_a, max_a,
    iteration, a,
    event_window_start, event_window_end,
    estimation_window_start, estimation_window_end,
    est_target, est_reference,
    fit,                    \* slope, intercept, r_value, std_err of linregress
    ar_list, i, car, aar,
    all_results, all_regression_params,
    console,                \* the lines printed so far
    results,                \* what the function returned: "unset", "None", "tuple"
    saved                   \* the workbooks written by __main__

dataVars == <<fileOk, df, target_index, reference_index, target_rows, reference_rows, n>>
paramVars == <<b, c, c_in, min_a, max_a>>
windowVars == <<a, event_window_start, event_window_end, estimation_window_start,
                estimation_window_end, est_target, est_reference, fit>>
rowVars == <<ar_list, i>>
aggVars == <<car, aar>>
outVars == <<all_results, all_regression_params>>

vars == <<pc, dataVars, paramVars, iteration, windowVars, rowVars, aggVars, outVars,
          console, results, saved>>

Init ==
    /\ pc = "load"
    /\ fileOk \in BOOLEAN
    /\ df \in Workbooks
    /\ target_index = <<>> /\ reference_index = <<>>
    /\ target_rows = <<>> /\ reference_rows = <<>>
    /\ n = 0 /\ b = 0 /\ c = 0 /\ c_in = 0
    /\ min_a = 0 /\ max_a = 0
    /\ iteration = 0 /\ a = 0
    /\ event_window_start = 0 /\ event_window_end = 0
    /\ estimation_window_start = 0 /\ estimation_window_end = 0
    /\ est_target = <<>> /\ est_reference = <<>>
    /\ fit = ExactFit
    /\ ar_list = <<>> /\ i = 0 /\ car = Zero /\ aar = Zero
    /\ all_results = <<>> /\ all_regression_params = <<>>
    /\ console = <<>>
    /\ results = "unset"
    /\ saved = <<>>

\* ---------------------------------------------------------------- actions
\* pd.read_excel raises: the error is printed and None returned.
LoadFail ==
    /\ pc = "load" /\ ~fileOk
    /\ console' = Append(console, Line("ERROR_FILE", 0, 0))
    /\ results' = "None"
    /\ pc' = "returned"
    /\ UNCHANGED <<dataVars, paramVars, iteration, windowVars, rowVars, aggVars, outVars, saved>>

\* The workbook is read, each column loses its missing cells on its own and
\* both arrays are cut to the shorter length.
LoadOk ==
    /\ pc = "load" /\ fileOk
    /\ LET tr == DropNaRows(df, "target")
           rr == DropNaRows(df, "reference")
           nn == Min(Len(tr), Len(rr))
       IN /\ n' = nn
          /\ target_rows' = SubSeq(tr, 1, nn)
          /\ reference_rows' = SubSeq(rr, 1, nn)
          /\ target_index' = SubSeq(ValuesOf(df, "target", tr), 1, nn)
          /\ reference_index' = SubSeq(ValuesOf(df, "reference", rr), 1, nn)
          /\ console' = console \o <<Line("LOADED", Len(df), 0), Line("VALID_POINTS", nn, 0)>>
    /\ pc' = "params"
    /\ UNCHANGED <<fileOk, df, paramVars, iteration, windowVars, rowVars, aggVars, outVars,
                   results, saved>>

\* b and c are read; the range of a is empty: error, None returned.
ParamsNoRange ==
    /\ pc = "params"
    /\ \E bb \in BInputs, cc \in CInputs :
        /\ ~ValidRange(MinA(bb), MaxA(n, bb))
        /\ b' = bb /\ c' = cc /\ c_in' = cc
        /\ min_a' = MinA(bb) /\ max_a' = MaxA(n, bb)
        /\ console' = Append(console, Line("ERROR_RANGE", bb, 0))
    /\ results' = "None"
    /\ pc' = "returned"
    /\ UNCHANGED <<dataVars, iteration, windowVars, rowVars, aggVars, outVars, saved>>

\* b and c are read; the range is printed and c clamped to it.
ParamsOk ==
    /\ pc = "params"
    /\ \E bb \in BInputs, cc \in CInputs :
        LET lo == MinA(bb)
            hi == MaxA(n, bb)
            c2 == ClampedC(lo, hi, cc)
        IN /\ ValidRange(lo, hi)
           /\ b' = bb /\ c_in' = cc
           /\ min_a' = lo /\ max_a' = hi
           /\ c' = c2
           /\ console' = console \o <<Line("RANGE", lo, hi), Line("ITERATIONS", cc, lo + cc - 1)>>
                           \o (IF lo + cc - 1 > hi
                               THEN <<Line("WARNING_CLAMP", hi - lo + 1, c2)>> ELSE <<>>)
    /\ iteration' = 0
    /\ pc' = "loop"
    /\ UNCHANGED <<dataVars, windowVars, rowVars, aggVars, outVars, results, saved>>

\* What the head of an iteration computes before the regression.
Windows(it) ==
    LET aa == min_a + it
        es == aa + b + 1
        ee == EstimationWindowEnd(aa, b)
    IN [a |-> aa,
        event_window_start |-> aa - b,
        event_window_end |-> aa + b,
        estimation_window_start |-> es,
        estimation_window_end |-> ee,
        est_target |-> PySlice(target_index, es, ee + 1),
        est_reference |-> PySlice(reference_index, es, ee + 1)]

SetWindows(w) ==
    /\ a' = w.a
    /\ event_window_start' = w.event_window_start
    /\ event_window_end' = w.event_window_end
    /\ estimation_window_start' = w.estimation_window_start
    /\ estimation_window_end' = w.estimation_window_end
    /\ est_target' = w.est_target
    /\ est_reference' = w.est_reference

\* An iteration starts and linregress raises: the exception leaves the
\* function and the script.
IterStartRaise ==
    /\ pc = "loop" /\ iteration < c
    /\ LET w == Windows(iteration)
       IN /\ LinregressRaises(w.est_reference, w.est_target)
          /\ SetWindows(w)
          /\ console' = console \o <<Line("ITERATION", IterationTag(iteration), w.a),
                                     Line("WINDOWS", w.event_window_start, w.estimation_window_end)>>
    /\ pc' = "raised"
    /\ UNCHANGED <<dataVars, paramVars, iteration, fit, rowVars, aggVars, outVars, results, saved>>

\* An iteration starts, the regression is fitted and its record appended.
IterStartOk ==
    /\ pc = "loop" /\ iteration < c
    /\ LET w == Windows(iteration)
       IN /\ ~LinregressRaises(w.est_reference, w.est_target)
          /\ SetWindows(w)
          /\ \E f \in LinregressResults(w.est_reference, w.est_target) :
               /\ fit' = f
               /\ all_regression_params' = Append(all_regression_params,
                      [iteration |-> IterationTag(iteration), a |-> w.a, b |-> b,
                       intercept |-> f.intercept, slope |-> f.slope, std_err |-> f.std_err,
                       r_squared |-> FMul(f.r_value, f.r_value)])
          /\ console' = console \o <<Line("ITERATION", IterationTag(iteration), w.a),
                                     Line("WINDOWS", w.event_window_start, w.estimation_window_end),
                                     Line("REGRESSION", IterationTag(iteration), 0)>>
          /\ i' = w.event_window_start
    /\ ar_list' = <<>>
    /\ pc' = "event"
    /\ UNCHANGED <<dataVars, paramVars, iteration, aggVars, all_results, results, saved>>

\* One pass of the loop over the event window (an index outside the arrays
\* raises IndexError).
EventRow ==
    /\ pc = "event" /\ i <= event_window_end
    /\ IF InRange(target_index, i) /\ InRange(reference_index, i)
       THEN LET target_return == At(target_index, i)
                reference_return == At(reference_index, i)
                expected_return == FAdd(fit.intercept, FMul(fit.slope, reference_return))
                ar == FSub(target_return, expected_return)
                t_stat == TStat(ar, fit.std_err)
            IN /\ all_results' = Append(all_results,
                      [iteration |-> IterationTag(iteration), a |-> a, b |-> b, index |-> i,
                       target |-> target_return, reference |-> reference_return,
                       expected |-> expected_return, ar |-> ar, t_stat |-> t_stat])
               /\ ar_list' = Append(ar_list, ar)
               /\ console' = Append(console, Line("ROW", IterationTag(iteration), i))
               /\ i' = i + 1
               /\ pc' = "event"
       ELSE /\ pc' = "raised"
            /\ UNCHANGED <<all_results, ar_list, console, i>>
    /\ UNCHANGED <<dataVars, paramVars, iteration, windowVars, aggVars, all_regression_params,
                   results, saved>>

\* The event window is exhausted: CAR and AAR.
Aggregate ==
    /\ pc = "event" /\ i > event_window_end
    /\ Len(ar_list) # 0
    /\ car' = PySum(ar_list)
    /\ aar' = FDiv(PySum(ar_list), Num(Len(ar_list)))
    /\ console' = Append(console, Line("CAR", IterationTag(iteration), 0))
    /\ iteration' = iteration + 1
    /\ pc' = "loop"
    /\ UNCHANGED <<dataVars, paramVars, windowVars, rowVars, outVars, results, saved>>

\* The event window was empty: sum([]) is the integer 0 and 0 / 0 raises
\* ZeroDivisionError.
AggregateRaise ==
    /\ pc = "event" /\ i > event_window_end
    /\ Len(ar_list) = 0
    /\ car' = PySum(ar_list)
    /\ pc' = "raised"
    /\ UNCHANGED <<dataVars, paramVars, iteration, windowVars, rowVars, aar, outVars, console,
                   results, saved>>

\* range(c) is exhausted: the two collections are returned.
LoopExit ==
    /\ pc = "loop" /\ ~(iteration < c)
    /\ console' = Append(console, Line("COMPLETED", 0, 0))
    /\ results' = "tuple"
    /\ pc' = "returned"
    /\ UNCHANGED <<dataVars, paramVars, iteration, windowVars, rowVars, aggVars, outVars, saved>>

\* __main__: the result is not None, both tables are written to one workbook.
MainSave ==
    /\ pc = "returned" /\ ResultsIsNotNone(results)
    /\ saved' = Append(saved, [AR_Results |-> all_results,
                               Regression_Params |-> all_regression_params])
    /\ console' = Append(console, Line("SAVED", Len(all_regression_params), Len(all_results)))
    /\ pc' = "exit"
    /\ UNCHANGED <<dataVars, paramVars, iteration, windowVars, rowVars, aggVars, outVars, results>>

\* __main__: the result is None, nothing is written.
MainSkip ==
    /\ pc = "returned" /\ ~ResultsIsNotNone(results)
    /\ pc' = "exit"
    /\ UNCHANGED <<dataVars, paramVars, iteration, windowVars, rowVars, aggVars, outVars,
                   console, results, saved>>

Next ==
    \/ LoadFail
    \/ LoadOk
    \/ ParamsNoRange
    \/ ParamsOk
    \/ IterStartRaise
    \/ IterStartOk
    \/ EventRow
    \/ Aggregate
    \/ AggregateRaise
    \/ LoopExit
    \/ MainSave
    \/ MainSkip

Spec == Init /\ [][Next]_vars

\* ------------------------------------------------------- shared notions
HasLine(kind) == \E k \in 1..Len(console) : console[k].kind = kind

\* b and c have been read.
PastParams == fileOk /\ pc \notin {"load", "params"}

Failed == pc = "raised" \/ results = "None"

IsPrefix(s, t) == Len(s) <= Len(t) /\ SubSeq(t, 1, Len(s)) = s

\* ---------------------------------------------------------------- C1
C1_Expected == IF b + c_in - 1 > n - b - 31 THEN (n - b - 31) - b + 1 ELSE c_in

C1_Clamp ==
    /\ c = C1_Expected
    /\ HasLine("WARNING_CLAMP") <=> (b + c_in - 1 > n - b - 31)
    /\ HasLine("ITERATION") => a <= n - b - 31
    \* n = 200, b = 5, c = 200: 160 iterations, the last at a = 164
    /\ ClampedC(MinA(5), MaxA(200, 5), 200) = 160
    /\ MinA(5) + ClampedC(MinA(5), MaxA(200, 5), 200) - 1 = 164

\* C1 as stated: with a non-empty range [b, n-b-31], c is clamped to
\* (n-b-31) - b + 1 when b + c - 1 > n-b-31 (and the clamp reported) and used
\* unchanged otherwise, the loop runs exactly that many iterations, and the
\* last event pointer is never above n-b-31.
C1_Original ==
    (PastParams /\ b <= n - b - 31) =>
        /\ C1_Clamp
        /\ results = "tuple" => iteration = C1_Expected

\* C1 as amended: the same, except that a completed loop has run
\* max(c', 0) iterations: a negative count runs none.
C1_ClampedIterations ==
    (PastParams /\ b <= n - b - 31) =>
        /\ C1_Clamp
        /\ results = "tuple" => iteration = Max0(C1_Expected)

C1_Witness ==
    /\ results = "tuple" /\ c_in > c /\ c >= 2 /\ iteration = c
    /\ a = n - b - 31 /\ HasLine("WARNING_CLAMP")

\* ---------------------------------------------------------------- C2
\* C2: in every iteration executed, for any integers b, c and any n, the
\* event pointer is a = b + (iteration number - 1), a - b >= 0 and
\* a + b + 30 < n, and every index used to read the series is in 0..n-1.
C2_WindowInvariant ==
    pc = "event" =>
        /\ a = b + (IterationTag(iteration) - 1)
        /\ event_window_start = a - b /\ event_window_start >= 0
        /\ estimation_window_end = a + b + 30 /\ estimation_window_end < n
        /\ \A idx \in (event_window_start..event_window_end)
                       \cup (estimation_window_start..estimation_window_end) :
               0 <= idx /\ idx <= n - 1
        /\ 0 <= estimation_window_start /\ estimation_window_start <= n - 1

\* ---------------------------------------------------------------- C3
C3_Valid == b >= 0 /\ a - b >= 0 /\ a + b + 30 < n

\* C3: for every valid (a, b, n) an iteration uses, the event window that is
\* iterated over has exactly 2b+1 indices a-b..a+b, both estimation slices
\* hold exactly the 30 elements at a+b+1..a+b+30, and the estimation window
\* starts one index after the event window ends (disjoint, adjacent).
C3_Windows ==
    (pc = "event" /\ C3_Valid) =>
        /\ event_window_start = a - b /\ event_window_end = a + b
        /\ Cardinality(event_window_start..event_window_end) = 2 * b + 1
        /\ Len(ar_list) = i - event_window_start
        /\ i <= event_window_end + 1
        /\ \A k \in 1..Len(ar_list) :
               all_results[Len(all_results) - Len(ar_list) + k].index = a - b + k - 1
        /\ Len(est_target) = 30 /\ Len(est_reference) = 30
        /\ \A k \in 1..30 :
               /\ est_target[k] = target_index[a + b + k + 1]
               /\ est_reference[k] = reference_index[a + b + k + 1]
        /\ estimation_window_start = event_window_end + 1
        /\ (event_window_start..event_window_end)
               \cap (estimation_window_start..estimation_window_end) = {}

C3_Witness ==
    /\ pc = "event" /\ C3_Valid /\ b >= 1 /\ iteration >= 1
    /\ i = event_window_end + 1 /\ Len(ar_list) = 2 * b + 1

\* ---------------------------------------------------------------- C4
\* C4: when the range of a is empty (b > n-b-31) the error is reported and
\* None returned: no iteration runs, no regression is fitted, no record is
\* collected and nothing is persisted.
C4_EmptyRangeAborts ==
    (PastParams /\ b > n - b - 31) =>
        /\ pc \in {"returned", "exit"}
        /\ results = "None"
        /\ HasLine("ERROR_RANGE")
        /\ ~HasLine("ITERATION") /\ ~HasLine("REGRESSION") /\ ~HasLine("ROW")
        /\ iteration = 0
        /\ all_results = <<>> /\ all_regression_params = <<>>
        /\ saved = <<>>

C4_Witness ==
    /\ pc = "exit" /\ fileOk /\ b >= 0 /\ b > n - b - 31
    /\ HasLine("ERROR_RANGE") /\ saved = <<>>

\* ---------------------------------------------------------------- C5
\* C5: an input b < 0 is rejected before any computation (nothing of an
\* iteration happens), so no iteration runs with an empty event window.
C5_NegativeBRejected ==
    /\ (PastParams /\ b < 0) =>
           /\ pc \in {"returned", "exit"} /\ results = "None"
           /\ ~HasLine("ITERATION") /\ all_regression_params = <<>>
    /\ pc = "event" => 2 * b + 1 >= 1

\* ---------------------------------------------------------------- C6
\* C6: every recorded t-statistic is abnormal / SE when the iteration's
\* standard error is non-zero and exactly 0 when it is 0; no division by
\* zero takes place.
C6_TStat ==
    \A k \in 1..Len(all_results) :
        LET rec == all_results[k]
            se == all_regression_params[rec.iteration].std_err
        IN /\ se # Zero => rec.t_stat = FDiv(rec.ar, se)
           /\ se = Zero => rec.t_stat = Zero
           /\ (IsFinite(rec.ar) /\ IsFinite(se)) => IsFinite(rec.t_stat)

C6_Witness ==
    /\ \E k \in 1..Len(all_results) :
           /\ all_regression_params[all_results[k].iteration].std_err = Zero
           /\ all_results[k].ar # Zero /\ all_results[k].t_stat = Zero
    /\ \E k \in 1..Len(all_results) :
           /\ all_regression_params[all_results[k].iteration].std_err = <<1, 2>>
           /\ all_results[k].ar # Zero
           /\ all_results[k].t_stat = FMul(Num(2), all_results[k].ar)

\* ---------------------------------------------------------------- C7
C7_Abnormal(idx) ==
    FSub(At(target_index, idx),
         FAdd(fit.intercept, FMul(fit.slope, At(reference_index, idx))))

RECURSIVE C7_SumOver(_, _)
C7_SumOver(lo, hi) ==
    IF lo > hi THEN Zero ELSE FAdd(C7_Abnormal(lo), C7_SumOver(lo + 1, hi))

\* C7: whenever an iteration has computed its aggregates, CAR is the sum of
\* target(i) - (intercept + slope * reference(i)) over the indices a-b..a+b
\* of that iteration alone, and AAR is CAR / (2b+1).
C7_Aggregates ==
    (pc \in {"loop", "returned", "exit"} /\ iteration > 0) =>
        /\ car = C7_SumOver(a - b, a + b)
        /\ aar = FDiv(car, Num(2 * b + 1))

C7_Witness ==
    /\ pc = "loop" /\ iteration >= 2 /\ b >= 1
    /\ car # Zero /\ aar # car

\* ---------------------------------------------------------------- C8
C8_SavedAfterCompletion ==
    saved # <<>> =>
        /\ results = "tuple" /\ ~(iteration < c) /\ HasLine("COMPLETED")
        /\ Len(saved) = 1
        /\ saved[1].AR_Results = all_results
        /\ saved[1].Regression_Params = all_regression_params

\* C8 as stated: a run that fails (unreadable data source, empty range, an
\* exception in some iteration) has output no record and no report row of
\* any iteration, and the tables are persisted only after all iterations.
C8_Original ==
    /\ Failed => /\ saved = <<>>
                 /\ ~HasLine("ROW") /\ ~HasLine("REGRESSION") /\ ~HasLine("CAR")
    /\ C8_SavedAfterCompletion

\* C8 as amended: a failed run persists nothing, and after a data-source or
\* empty-range failure nothing of any iteration has been printed or
\* collected; the tables are persisted only after all iterations.  (The
\* report lines of the iterations before an exception stay printed.)
C8_NothingPersistedOnFailure ==
    /\ Failed => saved = <<>>
    /\ results = "None" =>
           /\ ~HasLine("ITERATION") /\ ~HasLine("ROW")
           /\ ~HasLine("REGRESSION") /\ ~HasLine("CAR")
           /\ all_results = <<>> /\ all_regression_params = <<>>
    /\ C8_SavedAfterCompletion

C8_Witness ==
    /\ pc = "raised" /\ iteration >= 1 /\ b >= 0
    /\ HasLine("ROW") /\ HasLine("CAR") /\ all_results # <<>>
    /\ saved = <<>>

\* ---------------------------------------------------------------- C9
\* C9: after loading both series have length n, and element i of both
\* comes from the same workbook row, rows with a missing cell having been
\* dropped.
C9_Aligned ==
    (fileOk /\ pc # "load") =>
        /\ Len(target_index) = n /\ Len(reference_index) = n
        /\ \A k \in 1..n :
               /\ target_rows[k] = reference_rows[k]
               /\ df[target_rows[k] + 1].target # NaN
               /\ df[target_rows[k] + 1].reference # NaN

\* --------------------------------------------------------------- C10
C10_Collections ==
    /\ pc \in {"loop", "returned", "exit"} => Len(all_regression_params) = iteration
    /\ pc = "event" => Len(all_regression_params) = iteration + 1
    /\ \A k \in 1..Len(all_regression_params) :
           /\ all_regression_params[k].iteration = k
           /\ all_regression_params[k].a = b + k - 1
    /\ Len(all_results) =
           iteration * (2 * b + 1) + (IF pc = "event" THEN i - event_window_start ELSE 0)
    /\ \A j \in 1..Len(all_results) :
           LET rec == all_results[j]
               it == ((j - 1) \div (2 * b + 1)) + 1
           IN /\ rec.iteration = it
              /\ it <= Len(all_regression_params)
              /\ rec.a = all_regression_params[it].a
              /\ rec.index = rec.a - b + ((j - 1) % (2 * b + 1))

C10_AppendOnly ==
    /\ IsPrefix(all_results, all_results')
    /\ IsPrefix(all_regression_params, all_regression_params')

\* C10 as stated: the collections are append-only and consistent at every
\* point (one parameter record per started iteration, tagged k and
\* a = b+k-1; the result records in iteration order and ascending index
\* order with the same tags), and on completion they hold c' and
\* c'*(2b+1) records for the clamped count c'.
C10_Original ==
    /\ [](/\ C10_Collections
          /\ results = "tuple" =>
                 /\ Len(all_regression_params) = c
                 /\ Len(all_results) = c * (2 * b + 1))
    /\ [][C10_AppendOnly]_vars

\* C10 as amended: the same, with max(c', 0) and max(c', 0)*(2b+1) records
\* on completion.
C10_AppendOnlyConsistent ==
    /\ [](/\ C10_Collections
          /\ results = "tuple" =>
                 /\ Len(all_regression_params) = Max0(c)
                 /\ Len(all_results) = Max0(c) * (2 * b + 1))
    /\ [][C10_AppendOnly]_vars

C10_Witness ==
    /\ pc = "exit" /\ results = "tuple" /\ b >= 1
    /\ Len(all_regression_params) >= 2
    /\ Len(all_results) = Len(all_regression_params) * (2 * b + 1)

====
